---- MODULE Spec2Model ----
(***************************************************************************)
(* Model of src/features/commands.ts (omnisharp-vscode): the editor        *)
(* commands that build a catalog of dnx/dnu actions from the server's      *)
(* project snapshot, present it in a picker, run the selection in a        *)
(* terminal, remember the last generic action, and scaffold tasks.json.    *)
(*                                                                         *)
(* Strings are sequences of tokens, so that template literals, path.join,  *)
(* path.dirname, path.basename and the regular expressions are computed    *)
(* rather than assumed.  One command invocation is in flight at a time     *)
(* (the editor delivers one invocation at a time); every external call is  *)
(* a suspension point answered by a later action.                          *)
(***************************************************************************)
EXTENDS Integers, Sequences, FiniteSets, TLC

VARIABLES
    platform,         \* process.platform
    running,          \* server.isRunning()
    solutionPath,     \* server.getSolutionPathOrFolder()
    fs,               \* content of the paths the scaffolding touches
    lastCommand,      \* the module-level `lastCommand` slot
    op,               \* the command handler of the current/last invocation
    pc,               \* the external call the invocation is suspended on
    fileName,         \* argument of dnxRestoreForProject
    info,             \* the WorkspaceInformationResponse of this invocation
    commands,         \* the catalog handed to showQuickPick
    targets,          \* the launch targets handed to showQuickPick
    vscodeFolderPath, \* addTasksJson: resolved configuration folder
    chain,            \* the promise chain built inside the handler
    result,           \* what the handler returned to its caller
    trace,            \* external calls made by this invocation, in order
    memAtStart,       \* history: lastCommand when the invocation started
    fsAtStart,        \* history: fs when the invocation started
    lastStarted       \* history: generic entry whose execute() ran last

vars == <<platform, running, solutionPath, fs, lastCommand, op, pc, fileName,
          info, commands, targets, vscodeFolderPath, chain, result, trace,
          memAtStart, fsAtStart, lastStarted>>

(***************************************************************************)
(* Bounds of the model.                                                    *)
(***************************************************************************)
MaxProjects == 2

(***************************************************************************)
(* Token strings and the path helpers of node's `path` module.             *)
(***************************************************************************)
Sep == "/"

RECURSIVE LastSep(_)
\* index of the last separator of p, 0 when there is none
LastSep(p) ==
    IF p = <<>> THEN 0
    ELSE IF p[Len(p)] = Sep THEN Len(p)
    ELSE LastSep(SubSeq(p, 1, Len(p) - 1))

\* path.dirname
dirname(p) ==
    LET i == LastSep(p) IN
    IF i = 0 THEN <<".">>
    ELSE IF i = 1 THEN <<Sep>>
    ELSE SubSeq(p, 1, i - 1)

\* path.basename
basename(p) == SubSeq(p, LastSep(p) + 1, Len(p))

\* path.join(a, b) for normalized a and relative b
join(a, b) == a \o <<Sep>> \o b

\* /^win/.test(process.platform)
isWin == Len(platform) >= 3 /\ SubSeq(platform, 1, 3) = <<"w", "i", "n">>

\* /-beta[1-6]/.test(runtimePath)
IsBeta1to6(runtimePath) ==
    \E i \in 1..(Len(runtimePath) - 1) :
        /\ runtimePath[i] = "-beta"
        /\ runtimePath[i + 1] \in {"1", "2", "3", "4", "5", "6"}

(***************************************************************************)
(* Values.                                                                 *)
(***************************************************************************)
Undefined == <<"undefined">>
NoCommand == [kind |-> "none"]
NoInfo == [RuntimePath |-> <<>>, Projects |-> <<>>]

Pending == [state |-> "pending", value |-> Undefined]
NoPromise == [state |-> "none", value |-> Undefined]
Resolved(v) == [state |-> "resolved", value |-> v]
Rejected(v) == [state |-> "rejected", value |-> v]
\* a handler that returns no promise
Returned(v) == [state |-> "returned", value |-> v]

ServerNotRunningMsg == <<"OmniSharp server is not running.">>
OmniSharpNotRunningMsg == <<"OmniSharp is not running.">>
NoWorkspaceMsg == <<"No solution or folder open.">>
TemplateMissingMsg == <<"Could not find template-tasks.json file in extension.">>
ProjectNotFoundMsg(f) ==
    <<"Failed to execute restore, try to run 'dnu restore' manually for ">>
        \o f \o <<".">>
FolderCreateFailedMsg(d) == <<"Could not create ">> \o d \o <<" directory.">>
AlreadyExistsMsg(f) == f \o <<" already exists.">>

(***************************************************************************)
(* The environment: platforms, project snapshots the server may report,    *)
(* workspace paths, launch targets and the file system.                    *)
(***************************************************************************)
Platforms == { <<"w", "i", "n", "3", "2">>, <<"d", "a", "r", "w", "i", "n">> }

ProjectPool ==
    { [Name |-> <<"web">>, Path |-> <<Sep, "src", Sep, "web", Sep, "project.json">>,
       Commands |-> << <<"run">>, <<"web">> >>],
      [Name |-> <<"web">>, Path |-> <<Sep, "test", Sep, "web", Sep, "project.json">>,
       Commands |-> << >>],
      [Name |-> <<>>, Path |-> <<Sep, "src", Sep, "lib", Sep, "project.json">>,
       Commands |-> << <<"run">> >>] }

RuntimePaths ==
    { <<Sep, "dnx", Sep, "dnx-clr.1.0.0", "-beta", "3">>,
      <<Sep, "dnx", Sep, "dnx-clr.1.0.0", "-beta", "7">> }

ProjectLists == UNION { [1..n -> ProjectPool] : n \in 0..MaxProjects }

Snapshots == [RuntimePath : RuntimePaths, Projects : ProjectLists]

FileNames ==
    { <<Sep, "src", Sep, "web", Sep, "project.json">>,
      <<Sep, "src", Sep, "gone", Sep, "project.json">> }

NoPath == <<>>
SolutionFile == <<Sep, "ws", Sep, "app.sln">>
SolutionFolder == <<Sep, "ws">>
SolutionPaths == {NoPath, SolutionFile, SolutionFolder}

extensionPath == <<Sep, "ext">>

\* what the file system says a path is (pathHelpers.PathKind)
KindOf(p) == IF p = SolutionFile THEN "File" ELSE "Directory"

LaunchTargetLists ==
    { << >>,
      << [label |-> <<"app.sln">>, fsPath |-> SolutionFile] >>,
      << [label |-> <<"app.sln">>, fsPath |-> SolutionFile],
         [label |-> <<"ws">>, fsPath |-> SolutionFolder] >> }

\* outcomes of an external call other than a value: an opaque failure
IoError == <<"EIO">>

Exists(files, p) == p \in DOMAIN files /\ files[p] # "absent"

WriteFile(files, p, content) ==
    [q \in DOMAIN files \cup {p} |-> IF q = p THEN content ELSE files[q]]

TemplatePath == join(extensionPath, <<"template-tasks.json">>)
WorkspaceVsCode == join(SolutionFolder, <<".vscode">>)
WorkspaceTasksJson == join(WorkspaceVsCode, <<"tasks.json">>)

FileSystems ==
    { f \in [{TemplatePath, WorkspaceVsCode, WorkspaceTasksJson}
                -> {"absent", "dir", "user", "template"}] :
        /\ f[TemplatePath] \in {"absent", "template"}
        /\ f[WorkspaceVsCode] \in {"absent", "dir"}
        /\ f[WorkspaceTasksJson] \in {"absent", "user"}
        /\ f[WorkspaceTasksJson] # "absent" => f[WorkspaceVsCode] = "dir" }

(***************************************************************************)
(* Catalog entries and their execute() thunks.                             *)
(***************************************************************************)
\* variant: the label is always qualified by the path's last segment
DisplayName_Basename(project) == basename(project.Path)

\* project.Name || path.basename(project.Path)
DisplayName(project) ==
    IF project.Name # <<>> THEN project.Name ELSE basename(project.Path)

\* the object literal pushed at commands.ts:85; the closure is the record
DnxEntry(inf, i, key) ==
    LET project == inf.Projects[i] IN
    [kind |-> "dnx",
     label |-> <<"dnx ">> \o key \o <<" - (">> \o DisplayName(project) \o <<")">>,
     description |-> dirname(project.Path),
     key |-> key,
     project |-> project,
     projectIndex |-> i,
     RuntimePath |-> inf.RuntimePath]

\* the object literal pushed at commands.ts:133
DnuEntry(inf, i) ==
    LET project == inf.Projects[i] IN
    [kind |-> "dnu",
     label |-> <<"dnu restore - (">> \o DisplayName(project) \o <<")">>,
     description |-> dirname(project.Path),
     key |-> <<>>,
     project |-> project,
     projectIndex |-> i,
     RuntimePath |-> inf.RuntimePath]

\* Object.keys(project.Commands)
ObjectKeys(cmds) == cmds

RECURSIVE PushCommands_Prepend(_, _, _, _)
\* variant: unshift instead of push
PushCommands_Prepend(acc, inf, i, keys) ==
    IF keys = <<>> THEN acc
    ELSE PushCommands_Prepend(<< DnxEntry(inf, i, Head(keys)) >> \o acc,
                              inf, i, Tail(keys))

RECURSIVE PushCommands(_, _, _, _)
\* the inner forEach of dnxExecuteCommand: one push per key
PushCommands(acc, inf, i, keys) ==
    IF keys = <<>> THEN acc
    ELSE PushCommands(Append(acc, DnxEntry(inf, i, Head(keys))), inf, i, Tail(keys))

RECURSIVE DnxCatalogFrom(_, _, _)
\* the outer forEach of dnxExecuteCommand, from project i on
DnxCatalogFrom(acc, inf, i) ==
    IF i > Len(inf.Projects) THEN acc
    ELSE DnxCatalogFrom(
            PushCommands(acc, inf, i, ObjectKeys(inf.Projects[i].Commands)),
            inf, i + 1)

DnxCatalog(inf) == DnxCatalogFrom(<<>>, inf, 1)

RECURSIVE DnuCatalogFrom(_, _, _)
\* the forEach of dnxRestoreForAll
DnuCatalogFrom(acc, inf, i) ==
    IF i > Len(inf.Projects) THEN acc
    ELSE DnuCatalogFrom(Append(acc, DnuEntry(inf, i)), inf, i + 1)

DnuCatalog(inf) == DnuCatalogFrom(<<>>, inf, 1)

\* the runInTerminal call of a generic entry's execute()
DnxTerminalCall(e) ==
    LET command0 == join(e.RuntimePath, <<"bin", Sep, "dnx">>)
        args0 == << e.key >>
        args == IF IsBeta1to6(e.RuntimePath) THEN << <<".">> >> \o args0 ELSE args0
        command == IF isWin THEN command0 \o <<".exe">> ELSE command0
    IN [ev |-> "runInTerminal", command |-> command, args |-> args,
        cwd |-> dirname(e.project.Path), projectIndex |-> e.projectIndex]

\* the runInTerminal call of a restore for one project
DnuTerminalCall(runtimePath, project, i) ==
    LET command0 == join(runtimePath, <<"bin", Sep, "dnu">>)
        command == IF isWin THEN command0 \o <<".cmd">> ELSE command0
    IN [ev |-> "runInTerminal", command |-> command, args |-> << <<"restore">> >>,
        cwd |-> dirname(project.Path), projectIndex |-> i]

\* command.execute(): the call it makes
TerminalCallOf(e) ==
    IF e.kind = "dnx" THEN DnxTerminalCall(e)
    ELSE DnuTerminalCall(e.RuntimePath, e.project, e.projectIndex)

\* variant: restore entries remember themselves too
MemoryAfterExecute_AnyEntry(e, mem) == e

\* command.execute(): `lastCommand = this` in generic entries only
MemoryAfterExecute(e, mem) == IF e.kind = "dnx" THEN e ELSE mem

RECURSIVE FindProject_Last(_, _, _)
\* variant: the loop does not stop at the first match
FindProject_Last(projects, f, i) ==
    IF i > Len(projects) THEN 0
    ELSE LET later == FindProject_Last(projects, f, i + 1) IN
         IF later > 0 THEN later
         ELSE IF projects[i].Path = f THEN i ELSE 0

RECURSIVE FindProject(_, _, _)
\* the for..of of dnxRestoreForProject: first index whose Path === fileName, else 0
FindProject(projects, f, i) ==
    IF i > Len(projects) THEN 0
    ELSE IF projects[i].Path = f THEN i
    ELSE FindProject(projects, f, i + 1)

\* the decoration loop of pickProjectAndStart
DecorateTargets(ts, currentPath) ==
    [i \in 1..Len(ts) |->
        IF currentPath # NoPath /\ ts[i].fsPath = currentPath
        THEN [ts[i] EXCEPT !.label = <<"\\u2713 ">> \o @]
        ELSE ts[i]]

\* variant: a solution file is treated as a folder
ExpectedVsCodeFolderPath_NoDirname(p, kind) == join(p, <<".vscode">>)

\* getExpectedVsCodeFolderPath once the path kind is known
ExpectedVsCodeFolderPath(p, kind) ==
    IF kind = "File" THEN join(dirname(p), <<".vscode">>)
    ELSE join(p, <<".vscode">>)

TasksJsonPath == join(vscodeFolderPath, <<"tasks.json">>)

(***************************************************************************)
(* Initial state: a fresh extension process, no command invoked yet.       *)
(***************************************************************************)
Init ==
    /\ platform \in Platforms
    /\ running \in BOOLEAN
    /\ solutionPath \in SolutionPaths
    /\ fs \in FileSystems
    /\ lastCommand = NoCommand
    /\ op = "none"
    /\ pc = "idle"
    /\ fileName = <<>>
    /\ info = NoInfo
    /\ commands = <<>>
    /\ targets = <<>>
    /\ vscodeFolderPath = <<>>
    /\ chain = NoPromise
    /\ result = NoPromise
    /\ trace = <<>>
    /\ memAtStart = NoCommand
    /\ fsAtStart = << >>
    /\ lastStarted = NoCommand

world == <<platform, running, solutionPath, fs>>
locals == <<fileName, info, commands, targets, vscodeFolderPath>>
memory == <<lastCommand, lastStarted>>
history == <<memAtStart, fsAtStart>>

\* handlers that return their promise chain to the caller
Linked(o) == o \in {"execute", "restoreAll", "restoreProject", "pickProject"}

\* the chain settles; the caller sees it only if the handler returned it
Settle(c) ==
    /\ chain' = c
    /\ result' = IF Linked(op) THEN c ELSE result

\* resolve()/reject() of the promise constructed in addTasksJson
SettleOuter(r) == result' = IF result.state = "pending" THEN r ELSE result

Call(e) == trace' = Append(trace, e)

\* a new invocation starts (locals are fresh, memAtStart = lastCommand)
Begin(o) ==
    /\ pc = "idle"
    /\ op' = o
    /\ fsAtStart' = fs
    /\ UNCHANGED <<world, memAtStart, info, commands, targets, vscodeFolderPath>>

(***************************************************************************)
(* dnxExecuteCommand and dnxExecuteLastCommand.                            *)
(***************************************************************************)
\* variant: the running check is missing
ExecuteCommandStart_NoCheck ==
    /\ chain' = Pending
    /\ trace' = << [ev |-> "makeRequest"] >>
    /\ pc' = "fetch"

\* dnxExecuteCommand up to its first suspension
ExecuteCommandStart ==
    IF ~running
    THEN /\ chain' = Rejected(ServerNotRunningMsg)
         /\ trace' = <<>>
         /\ pc' = "done"
    ELSE /\ chain' = Pending
         /\ trace' = << [ev |-> "makeRequest"] >>
         /\ pc' = "fetch"

InvokeExecute ==
    /\ Begin("execute")
    /\ ExecuteCommandStart
    /\ result' = chain'
    /\ fileName' = <<>>
    /\ UNCHANGED memory

\* lastCommand.execute()
ReplayLast ==
    /\ lastCommand' = MemoryAfterExecute(lastCommand, lastCommand)
    /\ lastStarted' = lastCommand
    /\ trace' = << TerminalCallOf(lastCommand) >>
    /\ chain' = Pending
    /\ pc' = "terminal"

\* variant: the memory is never consulted
InvokeExecuteLast_AlwaysPick ==
    /\ Begin("executeLast")
    /\ ExecuteCommandStart
    /\ UNCHANGED memory
    /\ result' = Returned(Undefined)
    /\ fileName' = <<>>

InvokeExecuteLast ==
    /\ Begin("executeLast")
    /\ IF lastCommand # NoCommand
       THEN ReplayLast
       ELSE ExecuteCommandStart /\ UNCHANGED memory
    /\ result' = Returned(Undefined)
    /\ fileName' = <<>>

\* the continuation of makeRequest in dnxExecuteCommand
ExecuteFetched ==
    /\ pc = "fetch"
    /\ op \in {"execute", "executeLast"}
    /\ \E inf \in Snapshots :
        /\ info' = inf
        /\ commands' = DnxCatalog(inf)
        /\ Call([ev |-> "showQuickPick", count |-> Len(commands')])
    /\ pc' = "pick"
    /\ UNCHANGED <<world, memory, op, fileName, targets, vscodeFolderPath,
                   chain, result, history>>

(***************************************************************************)
(* dnxRestoreForAll and dnxRestoreForProject.                              *)
(***************************************************************************)
InvokeRestoreForAll ==
    /\ Begin("restoreAll")
    /\ ExecuteCommandStart
    /\ result' = chain'
    /\ fileName' = <<>>
    /\ UNCHANGED memory

RestoreAllFetched ==
    /\ pc = "fetch"
    /\ op = "restoreAll"
    /\ \E inf \in Snapshots :
        /\ info' = inf
        /\ commands' = DnuCatalog(inf)
        /\ Call([ev |-> "showQuickPick", count |-> Len(commands')])
    /\ pc' = "pick"
    /\ UNCHANGED <<world, memory, op, fileName, targets, vscodeFolderPath,
                   chain, result, history>>

InvokeRestoreForProject ==
    /\ Begin("restoreProject")
    /\ \E f \in FileNames : fileName' = f
    /\ chain' = Pending
    /\ result' = Pending
    /\ trace' = << [ev |-> "makeRequest"] >>
    /\ pc' = "fetch"
    /\ UNCHANGED memory

\* the continuation of makeRequest in dnxRestoreForProject
RestoreProjectFetched ==
    /\ pc = "fetch"
    /\ op = "restoreProject"
    /\ \E inf \in Snapshots :
        /\ info' = inf
        /\ LET i == FindProject(inf.Projects, fileName, 1) IN
           IF i > 0
           THEN /\ Call(DnuTerminalCall(inf.RuntimePath, inf.Projects[i], i))
                /\ pc' = "terminal"
                /\ UNCHANGED <<chain, result>>
           ELSE /\ Settle(Rejected(ProjectNotFoundMsg(fileName)))
                /\ pc' = "done"
                /\ UNCHANGED trace
    /\ UNCHANGED <<world, memory, op, fileName, commands, targets,
                   vscodeFolderPath, history>>

\* server.makeRequest fails
FetchRejected ==
    /\ pc = "fetch"
    /\ Settle(Rejected(IoError))
    /\ pc' = "done"
    /\ UNCHANGED <<world, memory, op, locals, trace, history>>

(***************************************************************************)
(* The picker and the terminal.                                            *)
(***************************************************************************)
\* variant: the `if (command)` guard is missing, execute of undefined throws
DismissPicker_Throws ==
    /\ pc \in {"pick", "pickTarget"}
    /\ Settle(Rejected(<<"TypeError">>))
    /\ pc' = "done"
    /\ UNCHANGED <<world, memory, op, locals, trace, history>>

\* showQuickPick resolves with undefined
DismissPicker ==
    /\ pc \in {"pick", "pickTarget"}
    /\ Settle(Resolved(Undefined))
    /\ pc' = "done"
    /\ UNCHANGED <<world, memory, op, locals, trace, history>>

\* showQuickPick resolves with a catalog entry: command.execute()
SelectCommand ==
    /\ pc = "pick"
    /\ \E i \in 1..Len(commands) :
        LET command == commands[i] IN
        /\ lastCommand' = MemoryAfterExecute(command, lastCommand)
        /\ lastStarted' = IF command.kind = "dnx" THEN command ELSE lastStarted
        /\ Call(TerminalCallOf(command))
    /\ pc' = "terminal"
    /\ UNCHANGED <<world, op, locals, chain, result, history>>

\* the promise of runInTerminal settles
TerminalReturn ==
    /\ pc = "terminal"
    /\ \E r \in {Resolved(<<"exit">>), Rejected(IoError)} : Settle(r)
    /\ pc' = "done"
    /\ UNCHANGED <<world, memory, op, locals, trace, history>>

(***************************************************************************)
(* pickProjectAndStart.                                                    *)
(***************************************************************************)
InvokePickProjectAndStart ==
    /\ Begin("pickProject")
    /\ chain' = Pending
    /\ result' = Pending
    /\ trace' = << [ev |-> "findLaunchTargets"] >>
    /\ pc' = "targets"
    /\ fileName' = <<>>
    /\ UNCHANGED memory

TargetsFound ==
    /\ pc = "targets"
    /\ \E ts \in LaunchTargetLists :
        /\ targets' = DecorateTargets(ts, solutionPath)
        /\ Call([ev |-> "showQuickPick", count |-> Len(ts)])
    /\ pc' = "pickTarget"
    /\ UNCHANGED <<world, memory, op, fileName, info, commands,
                   vscodeFolderPath, chain, result, history>>

SelectTarget ==
    /\ pc = "pickTarget"
    /\ \E i \in 1..Len(targets) :
        Call([ev |-> "restart", path |-> targets[i].fsPath])
    /\ pc' = "restart"
    /\ UNCHANGED <<world, memory, op, locals, chain, result, history>>

RestartReturn ==
    /\ pc = "restart"
    /\ Settle(Resolved(Undefined))
    /\ pc' = "done"
    /\ UNCHANGED <<world, memory, op, locals, trace, history>>

(***************************************************************************)
(* dotnetRestore.                                                          *)
(***************************************************************************)
InvokeDotnetRestore ==
    /\ Begin("dotnetRestore")
    /\ IF ~running
       THEN /\ result' = Rejected(ServerNotRunningMsg)
            /\ chain' = NoPromise
            /\ trace' = <<>>
            /\ pc' = "done"
       ELSE IF solutionPath = NoPath
       THEN /\ result' = Rejected(NoWorkspaceMsg)
            /\ chain' = NoPromise
            /\ trace' = <<>>
            /\ pc' = "done"
       ELSE /\ result' = Returned(Undefined)
            /\ chain' = Pending
            /\ trace' = << [ev |-> "getPathKind", path |-> solutionPath] >>
            /\ pc' = "pathKind"
    /\ fileName' = <<>>
    /\ UNCHANGED memory

\* both continuations of getPathKind in dotnetRestore
DotnetRestorePathKind ==
    /\ pc = "pathKind"
    /\ op = "dotnetRestore"
    /\ Call([ev |-> "runInTerminal", command |-> <<"dotnet">>,
             args |-> << <<"restore">> >>, cwd |-> solutionPath,
             projectIndex |-> 0])
    /\ pc' = "terminal"
    /\ UNCHANGED <<world, memory, op, locals, chain, result, history>>

(***************************************************************************)
(* addTasksJson.                                                           *)
(***************************************************************************)
InvokeAddTasksJson ==
    /\ Begin("addTasksJson")
    /\ IF ~running
       THEN /\ result' = Rejected(OmniSharpNotRunningMsg)
            /\ chain' = NoPromise
            /\ trace' = <<>>
            /\ pc' = "done"
       ELSE IF solutionPath = NoPath
       THEN /\ result' = Rejected(NoWorkspaceMsg)
            /\ chain' = NoPromise
            /\ trace' = <<>>
            /\ pc' = "done"
       ELSE /\ result' = Pending
            /\ chain' = Pending
            /\ trace' = << [ev |-> "getPathKind", path |-> solutionPath] >>
            /\ pc' = "pathKind"
    /\ fileName' = <<>>
    /\ UNCHANGED memory

\* getExpectedVsCodeFolderPath resolves; exists(tasksJsonPath) is asked
AddTasksJsonPathKind ==
    /\ pc = "pathKind"
    /\ op = "addTasksJson"
    /\ vscodeFolderPath' = ExpectedVsCodeFolderPath(solutionPath, KindOf(solutionPath))
    /\ Call([ev |-> "exists", path |-> join(vscodeFolderPath', <<"tasks.json">>)])
    /\ pc' = "existsTasks"
    /\ UNCHANGED <<world, memory, op, fileName, info, commands, targets,
                   chain, result, history>>

\* exists(tasksJsonPath) resolves
TasksJsonChecked ==
    /\ pc = "existsTasks"
    /\ IF Exists(fs, TasksJsonPath)
       THEN /\ Call([ev |-> "showInformationMessage",
                     message |-> AlreadyExistsMsg(TasksJsonPath)])
            /\ pc' = "notify"
       ELSE /\ Call([ev |-> "exists", path |-> TemplatePath])
            /\ pc' = "existsTemplate"
    /\ UNCHANGED <<world, memory, op, locals, chain, result, history>>

\* showInformationMessage resolves: resolve(tasksJsonPath)
Notified ==
    /\ pc = "notify"
    /\ SettleOuter(Resolved(TasksJsonPath))
    /\ chain' = Resolved(Undefined)
    /\ pc' = "done"
    /\ UNCHANGED <<world, memory, op, locals, trace, history>>

\* exists(templatePath) resolves
TemplateChecked ==
    /\ pc = "existsTemplate"
    /\ IF ~Exists(fs, TemplatePath)
       THEN /\ SettleOuter(Rejected(TemplateMissingMsg))
            /\ chain' = Resolved(Undefined)
            /\ pc' = "done"
            /\ UNCHANGED trace
       ELSE /\ Call([ev |-> "exists", path |-> vscodeFolderPath])
            /\ pc' = "existsFolder"
            /\ UNCHANGED <<chain, result>>
    /\ UNCHANGED <<world, memory, op, locals, history>>

\* the `if (ok)` branch: pipe the template into tasks.json, resolve
CopyTemplate(files) ==
    /\ trace' = trace \o << [ev |-> "createReadStream", path |-> TemplatePath],
                            [ev |-> "createWriteStream", path |-> TasksJsonPath],
                            [ev |-> "pipe"] >>
    /\ fs' = WriteFile(files, TasksJsonPath, files[TemplatePath])
    /\ SettleOuter(Resolved(TasksJsonPath))
    /\ chain' = Resolved(Undefined)
    /\ pc' = "done"

\* ensureDirectoryCreated: exists(directoryPath) resolves
FolderChecked ==
    /\ pc = "existsFolder"
    /\ IF Exists(fs, vscodeFolderPath)
       THEN CopyTemplate(fs)
       ELSE /\ Call([ev |-> "mkdir", path |-> vscodeFolderPath])
            /\ pc' = "mkdir"
            /\ UNCHANGED <<fs, chain, result>>
    /\ UNCHANGED <<platform, running, solutionPath, memory, op, locals, history>>

\* variant: the `if (ok)` guard is missing
FolderMade_IgnoreOk ==
    /\ pc = "mkdir"
    /\ \E ok \in BOOLEAN :
        CopyTemplate(IF ok THEN WriteFile(fs, vscodeFolderPath, "dir") ELSE fs)
    /\ UNCHANGED <<platform, running, solutionPath, memory, op, locals, history>>

\* ensureDirectoryCreated: mkdir(directoryPath) resolves with ok
FolderMade ==
    /\ pc = "mkdir"
    /\ \E ok \in BOOLEAN :
        IF ok
        THEN CopyTemplate(WriteFile(fs, vscodeFolderPath, "dir"))
        ELSE /\ SettleOuter(Rejected(FolderCreateFailedMsg(vscodeFolderPath)))
             /\ chain' = Resolved(Undefined)
             /\ pc' = "done"
             /\ UNCHANGED <<fs, trace>>
    /\ UNCHANGED <<platform, running, solutionPath, memory, op, locals, history>>

\* a pathHelpers call (getPathKind, exists, mkdir) fails
FsCallRejected ==
    /\ pc \in {"pathKind", "existsTasks", "existsTemplate", "existsFolder", "mkdir"}
    /\ Settle(Rejected(IoError))
    /\ pc' = "done"
    /\ UNCHANGED <<world, memory, op, locals, trace, history>>

\* the invocation is over: its locals and promises go out of scope
Finish ==
    /\ pc = "done"
    /\ pc' = "idle"
    /\ op' = "none"
    /\ fileName' = <<>>
    /\ info' = NoInfo
    /\ commands' = <<>>
    /\ targets' = <<>>
    /\ vscodeFolderPath' = <<>>
    /\ chain' = NoPromise
    /\ result' = NoPromise
    /\ trace' = <<>>
    /\ memAtStart' = lastCommand
    /\ fsAtStart' = << >>
    /\ UNCHANGED <<world, memory>>

(***************************************************************************)
(* The environment between invocations.                                    *)
(***************************************************************************)
\* the server starts, stops or opens another solution
ServerChange ==
    /\ pc = "idle"
    /\ running' \in BOOLEAN
    /\ solutionPath' \in SolutionPaths
    /\ <<running', solutionPath'>> # <<running, solutionPath>>
    /\ UNCHANGED <<platform, fs, memory, op, pc, locals, chain, result, trace,
                   history>>

\* the user changes the workspace files
FileSystemChange ==
    /\ pc = "idle"
    /\ fs' \in FileSystems
    /\ fs' # fs
    /\ UNCHANGED <<platform, running, solutionPath, memory, op, pc, locals,
                   chain, result, trace, history>>

Next ==
    \/ InvokeExecute
    \/ InvokeExecuteLast
    \/ ExecuteFetched
    \/ InvokeRestoreForAll
    \/ RestoreAllFetched
    \/ InvokeRestoreForProject
    \/ RestoreProjectFetched
    \/ FetchRejected
    \/ DismissPicker
    \/ SelectCommand
    \/ TerminalReturn
    \/ InvokePickProjectAndStart
    \/ TargetsFound
    \/ SelectTarget
    \/ RestartReturn
    \/ InvokeDotnetRestore
    \/ DotnetRestorePathKind
    \/ InvokeAddTasksJson
    \/ AddTasksJsonPathKind
    \/ TasksJsonChecked
    \/ Notified
    \/ TemplateChecked
    \/ FolderChecked
    \/ FolderMade
    \/ FsCallRejected
    \/ Finish
    \/ ServerChange
    \/ FileSystemChange

Spec == Init /\ [][Next]_vars

(***************************************************************************)
(* Vocabulary of the properties.                                           *)
(***************************************************************************)
Calls(kind) == { k \in 1..Len(trace) : trace[k].ev = kind }

\* f occurs in msg as a contiguous run of tokens
Contains(msg, f) ==
    \E k \in 0..(Len(msg) - Len(f)) : SubSeq(msg, k + 1, k + Len(f)) = f

NotRunningMessages == {ServerNotRunningMsg, OmniSharpNotRunningMsg}

\* number of catalog entries pushed before project i's entries
RECURSIVE Offset(_, _)
Offset(projects, i) ==
    IF i <= 1 THEN 0
    ELSE Offset(projects, i - 1) + Len(projects[i - 1].Commands)

(***************************************************************************)
(* C1: execute-last with the memory unset behaves as execute (a stopped    *)
(* server rejects before any call; otherwise the snapshot is fetched and   *)
(* the generic catalog built from it is shown in the picker); with the     *)
(* memory set it makes exactly one call, the remembered entry's terminal   *)
(* call, whatever the server's state: no fetch, no picker.                 *)
(***************************************************************************)
C1_ExecuteLast ==
    op = "executeLast" =>
        IF memAtStart = NoCommand
        THEN /\ ~running =>
                    /\ trace = <<>>
                    /\ chain = Rejected(ServerNotRunningMsg)
                    /\ pc = "done"
             /\ running =>
                    /\ Len(trace) >= 1
                    /\ trace[1].ev = "makeRequest"
                    /\ pc \in {"pick", "terminal"} =>
                            /\ trace[2] = [ev |-> "showQuickPick",
                                           count |-> Len(commands)]
                            /\ commands = DnxCatalog(info)
        ELSE /\ trace = << TerminalCallOf(memAtStart) >>
             /\ Calls("makeRequest") = {}
             /\ Calls("showQuickPick") = {}
             /\ commands = <<>>

C1_Witness ==
    /\ op = "executeLast"
    /\ memAtStart # NoCommand
    /\ ~running
    /\ pc = "done"
    /\ Calls("runInTerminal") = {1}

(***************************************************************************)
(* C2: the memory starts unset, always equals the generic entry whose      *)
(* execute() was started most recently, and changes only in the step that  *)
(* executes the generic catalog entry chosen in the picker, to exactly     *)
(* that entry of the catalog built from the fetched snapshot.              *)
(***************************************************************************)
C2_MemoryIsLastExecuted ==
    /\ lastCommand = NoCommand
    /\ [][ /\ lastCommand' = lastStarted'
           /\ lastCommand' # lastCommand =>
                /\ pc = "pick"
                /\ pc' = "terminal"
                /\ op \in {"execute", "executeLast"}
                /\ \E i \in 1..Len(commands) :
                     /\ lastCommand' = commands[i]
                     /\ commands[i].kind = "dnx"
                     /\ commands[i] =
                          DnxEntry(info, commands[i].projectIndex, commands[i].key)
                     /\ trace' = Append(trace, DnxTerminalCall(commands[i])) ]_vars

C2_Witness ==
    /\ op = "restoreAll"
    /\ pc = "terminal"
    /\ lastCommand # NoCommand
    /\ lastCommand.kind = "dnx"

(***************************************************************************)
(* C3: with the server not running, execute, restore-all, dotnet-restore   *)
(* and add-tasks-json are over at once with a rejection carrying the       *)
(* not-running message, having made no external call and no write.         *)
(***************************************************************************)
C3_NotRunningFailsFast ==
    (op \in {"execute", "restoreAll", "dotnetRestore", "addTasksJson"} /\ ~running) =>
        /\ pc = "done"
        /\ result.state = "rejected"
        /\ result.value \in NotRunningMessages
        /\ trace = <<>>
        /\ fs = fsAtStart

C3_Witness ==
    /\ op = "addTasksJson"
    /\ ~running
    /\ pc = "done"
    /\ result = Rejected(OmniSharpNotRunningMsg)

(***************************************************************************)
(* C4: dismissing the picker in execute, restore-all and                   *)
(* pick-project-and-start ends the operation resolved, with no terminal    *)
(* call, no restart, no write, and the memory as it was at the start.      *)
(***************************************************************************)
C4_DismissIsNoOp ==
    [][ ( /\ pc \in {"pick", "pickTarget"}
          /\ pc' = "done"
          /\ op \in {"execute", "restoreAll", "pickProject"} ) =>
            /\ result'.state = "resolved"
            /\ \A k \in 1..Len(trace') :
                    trace'[k].ev \notin {"runInTerminal", "restart"}
            /\ lastCommand' = memAtStart
            /\ fs' = fsAtStart ]_vars

C4_Witness ==
    /\ op = "execute"
    /\ pc = "done"
    /\ Len(trace) = 2
    /\ trace[2].ev = "showQuickPick"
    /\ Len(commands) > 0
    /\ memAtStart # NoCommand
    /\ result = Resolved(Undefined)

(***************************************************************************)
(* C5: with the server running, a workspace path known and tasks.json      *)
(* already there, add-tasks-json (its file system calls answering) makes   *)
(* no mkdir and no write, leaves the files as they were, tells the user    *)
(* the file exists and resolves with the one tasks.json path of the        *)
(* workspace, on every call.                                               *)
(***************************************************************************)
C5_ExistingTasksJson ==
    ( /\ op = "addTasksJson"
      /\ running
      /\ solutionPath # NoPath
      /\ Exists(fsAtStart, WorkspaceTasksJson) ) =>
        /\ fs = fsAtStart
        /\ Calls("mkdir") = {}
        /\ Calls("createWriteStream") = {}
        /\ (pc = "done" /\ chain.state # "rejected") =>
                /\ result = Resolved(WorkspaceTasksJson)
                /\ trace[Len(trace)] =
                        [ev |-> "showInformationMessage",
                         message |-> AlreadyExistsMsg(WorkspaceTasksJson)]

C5_Witness ==
    /\ op = "addTasksJson"
    /\ pc = "done"
    /\ solutionPath = SolutionFile
    /\ fsAtStart[WorkspaceTasksJson] = "template"
    /\ result = Resolved(WorkspaceTasksJson)

(***************************************************************************)
(* C6: in add-tasks-json a write to tasks.json happens only as the last    *)
(* step of a run in which the server was running, the workspace path was   *)
(* known, tasks.json was absent, the template present and the folder       *)
(* exists, and that run resolves; a run that fails has written nothing.    *)
(***************************************************************************)
C6_CopyIsLast ==
    /\ Calls("createWriteStream") # {} =>
        /\ op = "addTasksJson"
        /\ pc = "done"
        /\ running
        /\ solutionPath # NoPath
        /\ ~Exists(fsAtStart, TasksJsonPath)
        /\ Exists(fsAtStart, TemplatePath)
        /\ Exists(fs, vscodeFolderPath)
        /\ Calls("createWriteStream") = {Len(trace) - 1}
        /\ trace[Len(trace)].ev = "pipe"
        /\ result = Resolved(TasksJsonPath)
        /\ fs[TasksJsonPath] = fs[TemplatePath]
    /\ (op = "addTasksJson" /\ (result.state = "rejected" \/ chain.state = "rejected")) =>
        /\ Calls("createWriteStream") = {}
        /\ fs = fsAtStart
        /\ pc = "done"
    /\ (op = "addTasksJson" /\ result.state = "rejected") =>
        \/ result.value = OmniSharpNotRunningMsg /\ ~running
        \/ result.value = NoWorkspaceMsg /\ solutionPath = NoPath
        \/ result.value = TemplateMissingMsg /\ ~Exists(fs, TemplatePath)
        \/ /\ result.value = FolderCreateFailedMsg(vscodeFolderPath)
           /\ ~Exists(fs, vscodeFolderPath)

C6_Witness ==
    /\ op = "addTasksJson"
    /\ pc = "done"
    /\ result = Rejected(FolderCreateFailedMsg(WorkspaceVsCode))
    /\ Calls("mkdir") # {}

(***************************************************************************)
(* C7: once the snapshot is fetched, single-project restore makes exactly  *)
(* one terminal call, the dnu restore in the directory of the first        *)
(* project whose path equals the requested one, and shows no picker; when  *)
(* no project matches it makes no terminal call and rejects with a         *)
(* message that contains the requested path.                               *)
(***************************************************************************)
C7_RestoreForProject ==
    (op = "restoreProject" /\ info # NoInfo) =>
        LET matches == { i \in 1..Len(info.Projects) :
                            info.Projects[i].Path = fileName }
        IN  /\ Calls("showQuickPick") = {}
            /\ IF matches # {}
               THEN LET first == CHOOSE i \in matches : \A j \in matches : i <= j
                    IN  /\ Calls("runInTerminal") = {2}
                        /\ trace[2].projectIndex = first
                        /\ trace[2].cwd = dirname(info.Projects[first].Path)
                        /\ trace[2].args = << <<"restore">> >>
                        /\ trace[2].command =
                             info.RuntimePath \o <<Sep, "bin", Sep, "dnu">>
                                \o (IF platform[1] = "w" THEN <<".cmd">> ELSE <<>>)
               ELSE /\ Calls("runInTerminal") = {}
                    /\ pc = "done"
                    /\ result.state = "rejected"
                    /\ Contains(result.value, fileName)

C7_Witness ==
    /\ op = "restoreProject"
    /\ pc = "done"
    /\ Len(info.Projects) = 2
    /\ info.Projects[1].Path # fileName
    /\ info.Projects[2].Path = fileName
    /\ Calls("runInTerminal") = {2}
    /\ result.state = "resolved"

(***************************************************************************)
(* C8 as stated: in the catalog shown by the picker no two entries have    *)
(* equal labels.                                                           *)
(***************************************************************************)
C8_LabelsUnique ==
    pc = "pick" =>
        \A i, j \in 1..Len(commands) :
            i # j => commands[i].label # commands[j].label

(***************************************************************************)
(* C8 amended: two entries of one catalog for the same command name (all   *)
(* entries of the restore catalog) have equal labels exactly when their    *)
(* projects have the same display name (Name, or the last path segment     *)
(* when unnamed), and the entries of one project have distinct labels.     *)
(***************************************************************************)
C8_LabelsQualified ==
    pc = "pick" =>
        \A i, j \in 1..Len(commands) :
            LET qi == IF commands[i].project.Name # <<>>
                      THEN commands[i].project.Name
                      ELSE << commands[i].project.Path[Len(commands[i].project.Path)] >>
                qj == IF commands[j].project.Name # <<>>
                      THEN commands[j].project.Name
                      ELSE << commands[j].project.Path[Len(commands[j].project.Path)] >>
            IN  /\ (i # j /\ commands[i].key = commands[j].key) =>
                    (commands[i].label = commands[j].label <=> qi = qj)
                /\ (i # j /\ commands[i].projectIndex = commands[j].projectIndex) =>
                    commands[i].label # commands[j].label

C8_Witness ==
    /\ pc = "pick"
    /\ op = "execute"
    /\ \E i, j \in 1..Len(commands) :
        /\ i # j
        /\ commands[i].key = commands[j].key
        /\ commands[i].project.Name # <<>>
        /\ commands[j].project.Name = <<>>
        /\ commands[i].label # commands[j].label

(***************************************************************************)
(* C9: the catalog handed to the picker has one entry per (project,        *)
(* command key) pair, in project order then key order, for the generic     *)
(* catalog (sum of Mi entries) and one entry per project in project order  *)
(* for the restore catalog (N entries); it is a function of the snapshot,  *)
(* and no terminal call is made before an entry is selected.               *)
(***************************************************************************)
C9_CatalogShape ==
    pc = "pick" =>
        LET ps == info.Projects IN
        /\ Calls("runInTerminal") = {}
        /\ op \in {"execute", "executeLast"} =>
            /\ Len(commands) = Offset(ps, Len(ps) + 1)
            /\ \A i \in 1..Len(ps) : \A k \in 1..Len(ps[i].Commands) :
                LET e == commands[Offset(ps, i) + k] IN
                /\ e.kind = "dnx"
                /\ e.projectIndex = i
                /\ e.project = ps[i]
                /\ e.key = ps[i].Commands[k]
                /\ e.RuntimePath = info.RuntimePath
        /\ op = "restoreAll" =>
            /\ Len(commands) = Len(ps)
            /\ \A i \in 1..Len(ps) :
                /\ commands[i].kind = "dnu"
                /\ commands[i].projectIndex = i
                /\ commands[i].project = ps[i]
                /\ commands[i].RuntimePath = info.RuntimePath

C9_Witness ==
    /\ pc = "pick"
    /\ op = "execute"
    /\ Len(info.Projects) = 2
    /\ Len(info.Projects[1].Commands) = 2
    /\ Len(info.Projects[2].Commands) = 1
    /\ Len(commands) = 3
    /\ commands[2].key = <<"web">>
    /\ commands[3].projectIndex = 2

(***************************************************************************)
(* C10 as stated: when the chain of add-tasks-json is over, the returned   *)
(* promise is settled, and a failure of a file system call is its          *)
(* rejection.                                                              *)
(***************************************************************************)
C10_AlwaysSettles ==
    (op = "addTasksJson" /\ pc = "done") =>
        /\ result.state \in {"resolved", "rejected"}
        /\ chain.state = "rejected" => result = chain

====
